---- MODULE Spec2Model ----
(***************************************************************************)
(* A model of app.py, the Flask document generator: the placeholder        *)
(* extractor, the identifier sanitizer, the template rewriter, the         *)
(* filename deriver, and the two request handlers select_template and      *)
(* generate_document over a small file system.                             *)
(*                                                                         *)
(* A Python str is a sequence of one-character strings, so that the        *)
(* regular expressions, strip() and lower() are computed character by      *)
(* character.  Python's None is the value None below, which no str equals. *)
(***************************************************************************)
EXTENDS Integers, Sequences, FiniteSets, TLC

VARIABLES
    placeholder, once, twice,                     \* the sanitizer applied once and twice
    files, scratch,                               \* the file system: path -> file, and the scratch directories that exist
    xml_content, template_path, mapping, ret,     \* one call of sanitize_template_xml
    extracted,                                    \* and the extraction that follows it
    raw_values, output_filename,                  \* filename derivation
    last, resp, context, io, made_tmp, requests,  \* the last request of a handler
    pc, req, tmp, locals, loaded, writers, order  \* interleaved generate_document requests

vars == <<placeholder, once, twice, files, scratch, xml_content, template_path, mapping, ret,
          extracted, raw_values, output_filename, last, resp, context, io, made_tmp,
          requests, pc, req, tmp, locals, loaded, writers, order>>

sanitizeVars == <<placeholder, once, twice>>
fsVars       == <<files, scratch>>
rewriteVars  == <<xml_content, template_path, mapping, ret, extracted>>
filenameVars == <<raw_values, output_filename>>
handlerVars  == <<last, resp, context, io, made_tmp, requests>>
raceVars     == <<pc, req, tmp, locals, loaded, writers, order>>

-----------------------------------------------------------------------------
(* Bounds of the model.                                                    *)

MaxPlaceholderLen == 4
MaxTokens         == 5
MaxRequests       == 1

-----------------------------------------------------------------------------
(* Characters and strings.                                                 *)

None == <<"None">>

UpperCase == <<"A","B","C","D","E","F","G","H","I","J","K","L","M",
               "N","O","P","Q","R","S","T","U","V","W","X","Y","Z">>
LowerCase == <<"a","b","c","d","e","f","g","h","i","j","k","l","m",
               "n","o","p","q","r","s","t","u","v","w","x","y","z">>
Digits    == <<"0","1","2","3","4","5","6","7","8","9">>

Range(f) == {f[i] : i \in DOMAIN f}

\* \w of Python's re on str: letters, digits and the underscore.
WordChars == Range(UpperCase) \cup Range(LowerCase) \cup Range(Digits) \cup {"_"}

\* what str.strip() removes
Whitespace == {" ", "\n", "\r", "\t"}

\* The characters in code-point order, as Python compares str.
CodeOrder == <<"\t", "\n", "\r", " ", "!", "-", ".", "/">> \o Digits \o <<"<", ">", "@">> \o UpperCase
             \o <<"_">> \o LowerCase \o <<"{", "}">>

OrdTable == [c \in Range(CodeOrder) |-> CHOOSE i \in DOMAIN CodeOrder : CodeOrder[i] = c]

Ord(c) == OrdTable[c]

\* str.lower() on one character
LowerTable == [c \in Range(UpperCase) |-> LowerCase[CHOOSE i \in DOMAIN UpperCase : UpperCase[i] = c]]

LowerChar(c) == IF c \in DOMAIN LowerTable THEN LowerTable[c] ELSE c

\* str.lower()
Lower(s) == [i \in DOMAIN s |-> LowerChar(s[i])]

\* str.strip(chars): drop the leading and trailing characters that are in chars
RECURSIVE FirstKept(_, _, _)
FirstKept(s, chars, i) ==
    IF i > Len(s) \/ s[i] \notin chars THEN i ELSE FirstKept(s, chars, i + 1)

RECURSIVE LastKept(_, _, _)
LastKept(s, chars, i) ==
    IF i < 1 \/ s[i] \notin chars THEN i ELSE LastKept(s, chars, i - 1)

StripChars(s, chars) == SubSeq(s, FirstKept(s, chars, 1), LastKept(s, chars, Len(s)))

\* str.strip()
Strip(s) == StripChars(s, Whitespace)

\* s < t in Python's str order
RECURSIVE StrLess(_, _)
StrLess(s, t) ==
    IF t = <<>> THEN FALSE
    ELSE IF s = <<>> THEN TRUE
    ELSE IF s[1] # t[1] THEN Ord(s[1]) < Ord(t[1])
    ELSE StrLess(Tail(s), Tail(t))

\* list.sort() of a list of distinct str
RECURSIVE Sorted(_)
Sorted(S) ==
    IF S = {} THEN <<>>
    ELSE LET m == CHOOSE x \in S : \A y \in S \ {x} : StrLess(x, y)
         IN  <<m>> \o Sorted(S \ {m})

\* the strings over an alphabet of length at most n
RECURSIVE StringsUpTo(_, _)
StringsUpTo(alphabet, n) ==
    IF n = 0 THEN {<<>>}
    ELSE LET shorter == StringsUpTo(alphabet, n - 1)
         IN  shorter \cup {Append(s, c) : s \in shorter, c \in alphabet}

-----------------------------------------------------------------------------
(* sanitize_placeholder                                                    *)

\* re.sub(r'\W+', '_', s): every maximal run of non-word characters becomes one "_"
RECURSIVE SubNonWord(_, _, _)
SubNonWord(s, i, inRun) ==
    IF i > Len(s) THEN <<>>
    ELSE IF s[i] \in WordChars THEN <<s[i]>> \o SubNonWord(s, i + 1, FALSE)
    ELSE (IF inRun THEN <<>> ELSE <<"_">>) \o SubNonWord(s, i + 1, TRUE)

\* a slip: the underscores are trimmed before the substitution, not after it
sanitize_placeholder_trim_first(s) == SubNonWord(StripChars(s, {"_"}), 1, FALSE)

sanitize_placeholder(s) == StripChars(SubNonWord(s, 1, FALSE), {"_"})

-----------------------------------------------------------------------------
(* The regular expressions of the extractor and of the rewriter.           *)

\* the first q >= i with s[q] = s[q+1] = c, or 0
RECURSIVE NextPair(_, _, _)
NextPair(s, c, i) ==
    IF i + 1 > Len(s) THEN 0
    ELSE IF s[i] = c /\ s[i + 1] = c THEN i
    ELSE NextPair(s, c, i + 1)

\* r'{{(.*?)}}' with re.DOTALL, searched from position i: <<p, q>> where the match
\* is s[p..q+1], "{{" at p and the first "}}" after it at q; <<0, 0>> if there is none
MatchFrom(s, i) ==
    LET p == NextPair(s, "{", i)
        q == IF p = 0 THEN 0 ELSE NextPair(s, "}", p + 2)
    IN  IF q = 0 THEN <<0, 0>> ELSE <<p, q>>

\* the non-overlapping matches of r'{{(.*?)}}' in s, left to right, from position i
RECURSIVE Matches(_, _)
Matches(s, i) ==
    LET m == MatchFrom(s, i)
    IN  IF m[1] = 0 THEN <<>> ELSE <<m>> \o Matches(s, m[2] + 2)

\* match.group(0) and match.group(1)
Group0(s, m) == SubSeq(s, m[1], m[2] + 1)
Group1(s, m) == SubSeq(s, m[1] + 2, m[2] - 1)

\* the first k >= i with s[k] = c, or 0
RECURSIVE NextChar(_, _, _)
NextChar(s, c, i) ==
    IF i > Len(s) THEN 0
    ELSE IF s[i] = c THEN i
    ELSE NextChar(s, c, i + 1)

\* re.sub(r'<[^>]+>', '', s) from position i: a "<", at least one character that
\* is not ">", and the next ">" are removed
RECURSIVE StripTags(_, _)
StripTags(s, i) ==
    IF i > Len(s) THEN <<>>
    ELSE LET k == IF s[i] = "<" THEN NextChar(s, ">", i + 1) ELSE 0
         IN  IF k >= i + 2 THEN StripTags(s, k + 1)
             ELSE <<s[i]>> \o StripTags(s, i + 1)

\* re.sub(r'<[^>]+>', '', inner).strip()
Cleaned(inner) == Strip(StripTags(inner, 1))

\* the placeholders of a markup payload: lines 88-94 of extract_placeholders_from_xml
Placeholders(xml) ==
    LET ms == Matches(xml, 1)
    IN  {Cleaned(Group1(xml, ms[k])) : k \in DOMAIN ms} \ {<<>>}

Braced(key) == <<"{", "{">> \o key \o <<"}", "}">>

\* the nested function replacement(match) of sanitize_template_xml
replacement(full_match, inner, map) ==
    LET cleaned == Cleaned(inner)
    IN  IF cleaned \in DOMAIN map THEN Braced(map[cleaned]) ELSE full_match

\* re.sub(r'{{(.*?)}}', replacement, xml_content, flags=re.DOTALL) from position i
RECURSIVE ReSub(_, _, _)
ReSub(s, map, i) ==
    LET m == MatchFrom(s, i)
    IN  IF m[1] = 0 THEN SubSeq(s, i, Len(s))
        ELSE SubSeq(s, i, m[1] - 1)
             \o replacement(Group0(s, m), Group1(s, m), map)
             \o ReSub(s, map, m[2] + 2)

-----------------------------------------------------------------------------
(* The file system.  A path is <<directory, basename>>; a file is a zip    *)
(* archive with members, or something zipfile cannot open.                 *)

SANITIZED_DIR == "sanitized_templates"
OUTPUT_DIR    == "output"
TEMPLATES_DIR == "templates"

DocXml       == "word/document.xml"
ContentTypes == "[Content_Types].xml"

SanitizedPrefix == <<"s","a","n","i","t","i","z","e","d","_">>

EmptyDir == [n \in {} |-> <<>>]

\* rendered: <<>> for a template, <<context>> for a document rendered with context
Archive(members) == [zip |-> TRUE, members |-> members, rendered |-> <<>>]
NotAnArchive     == [zip |-> FALSE, members |-> EmptyDir, rendered |-> <<>>]

\* a template archive whose markup payload is xml
TemplateFile(xml) ==
    Archive([n \in {DocXml, ContentTypes} |->
                IF n = DocXml THEN xml ELSE <<"<", "T", ">">>])

\* an archive without the markup payload
NoPayloadFile == Archive([n \in {ContentTypes} |-> <<"<", "T", ">">>])

\* zipfile.ZipFile(path, "r") succeeds
Opens(fs, path) == path \in DOMAIN fs /\ fs[path].zip

\* f with x bound to v
Put(f, x, v) == [y \in DOMAIN f \cup {x} |-> IF y = x THEN v ELSE f[y]]

\* f without x
Drop(f, x) == [y \in DOMAIN f \ {x} |-> f[y]]

\* extract_placeholders_from_xml: an unreadable archive or a missing payload gives []
extract_placeholders_from_xml(fs, docx_path) ==
    IF Opens(fs, docx_path) /\ DocXml \in DOMAIN fs[docx_path].members
    THEN Placeholders(fs[docx_path].members[DocXml])
    ELSE {}

\* tempfile.mkdtemp(): a directory name that does not exist yet
NewTmp(sc) == CHOOSE t \in 1..(Cardinality(DOMAIN sc) + 1) : t \notin DOMAIN sc

\* os.path.join(sanitized_dir, "sanitized_" + os.path.basename(template_path))
SanitizedPath(path, sanitized_dir) == <<sanitized_dir, SanitizedPrefix \o path[2]>>

NoPath == <<"", <<>>>>
Returned(p) == [kind |-> "path", path |-> p]
ReturnedNone == [kind |-> "None", path |-> NoPath]
Raised == [kind |-> "raise", path |-> NoPath]
NotCalled == [kind |-> "not called", path |-> NoPath]

\* open(path, "r", encoding="utf-8").read(): text mode with universal newlines,
\* "\r\n" and a lone "\r" are read as "\n"
RECURSIVE UniversalNewlines(_)
UniversalNewlines(s) ==
    IF s = <<>> THEN <<>>
    ELSE IF Head(s) = "\r"
    THEN <<"\n">> \o UniversalNewlines(IF Len(s) >= 2 /\ s[2] = "\n"
                                       THEN SubSeq(s, 3, Len(s)) ELSE Tail(s))
    ELSE <<Head(s)>> \o UniversalNewlines(Tail(s))

\* os.linesep of the platform the application is deployed on (POSIX)
LineSep == <<"\n">>

\* open(path, "w", encoding="utf-8").write(s): text mode, "\n" is written as os.linesep
RECURSIVE TextWrite(_)
TextWrite(s) ==
    IF s = <<>> THEN <<>>
    ELSE (IF Head(s) = "\n" THEN LineSep ELSE <<Head(s)>>) \o TextWrite(Tail(s))

\* lines 116-138 of sanitize_template_xml: the payload is read as text, rewritten
\* and written back as text
RewrittenPayload(payload, map) == TextWrite(ReSub(UniversalNewlines(payload), map, 1))

\* what the environment can make fail inside sanitize_template_xml
RewriteFaults == {"none", "write_payload", "write_archive"}

\* sanitize_template_xml as one call: the return value (or that it raised), the
\* file system and the scratch directories afterwards, the scratch it made, and
\* the fault that struck ("none" if the call did not get that far).  A failing
\* repack leaves the new archive incomplete.
sanitize_template_xml(fs, sc, path, map, sanitized_dir, fault) ==
    LET t == NewTmp(sc)
        out(r, f, s, failed) ==
            [ret |-> r, files |-> f, scratch |-> s, tmp |-> t, failed |-> failed]
    IN  IF ~Opens(fs, path)
        THEN out(Raised, fs, Put(sc, t, EmptyDir), "none")
        ELSE LET unpacked == fs[path].members
             IN  IF DocXml \notin DOMAIN unpacked
                 THEN out(ReturnedNone, fs, sc, "none")
                 ELSE LET new_xml   == RewrittenPayload(unpacked[DocXml], map)
                          rewritten == Put(unpacked, DocXml, new_xml)
                          target    == SanitizedPath(path, sanitized_dir)
                      IN  CASE fault = "write_payload" ->
                                   out(ReturnedNone, fs, sc, fault)
                            [] fault = "write_archive" ->
                                   out(Raised, Put(fs, target, NotAnArchive),
                                       Put(sc, t, rewritten), fault)
                            [] OTHER ->
                                   out(Returned(target),
                                       Put(fs, target, Archive(rewritten)), sc, "none")

-----------------------------------------------------------------------------
(* get_value_case_insensitive and the output filename.                     *)

ClientCompanyName == <<"C","l","i","e","n","t"," ","C","o","m","p","a","n","y"," ","N","a","m","e">>
ProposalDate      == <<"P","r","o","p","o","s","a","l"," ","d","a","t","e">>
UnknownClient     == <<"U","n","k","n","o","w","n","C","l","i","e","n","t">>
UnknownDate       == <<"U","n","k","n","o","w","n","D","a","t","e">>
ProposalPrefix    == <<"P","r","o","p","o","s","a","l","_">>
DocxSuffix        == <<".","d","o","c","x">>

\* what an uncaught AttributeError leaves instead of a str
AttributeError == <<"AttributeError">>

\* get_value_case_insensitive: dictionary is the list of <<key, value>> in the order
\* of dict.items(); the first matching key decides, and None has no strip()
RECURSIVE get_value_case_insensitive(_, _, _)
get_value_case_insensitive(dictionary, target_key, default) ==
    IF dictionary = <<>> THEN default
    ELSE LET key   == Head(dictionary)[1]
             value == Head(dictionary)[2]
         IN  IF Lower(Strip(key)) = Lower(Strip(target_key))
             THEN IF value = None THEN AttributeError
                  ELSE IF Strip(value) # <<>> THEN Strip(value) ELSE default
             ELSE get_value_case_insensitive(Tail(dictionary), target_key, default)

\* lines 242-245 of generate_document: the output filename, or AttributeError
OutputFilename(raw) ==
    LET client_name   == get_value_case_insensitive(raw, ClientCompanyName, UnknownClient)
        proposal_date == get_value_case_insensitive(raw, ProposalDate, UnknownDate)
    IN  IF client_name = AttributeError \/ proposal_date = AttributeError
        THEN AttributeError
        ELSE ProposalPrefix \o client_name \o <<"_">> \o proposal_date \o DocxSuffix

-----------------------------------------------------------------------------
(* The values of the variables a specification does not use.               *)

SanitizeIdle == placeholder = <<>> /\ once = None /\ twice = None
FsIdle       == files = EmptyDir /\ scratch = EmptyDir
RewriteIdle  ==
    /\ xml_content = <<>>
    /\ template_path = NoPath
    /\ mapping = EmptyDir
    /\ ret = NotCalled
    /\ extracted = [done |-> FALSE, set |-> {}]
FilenameIdle == raw_values = <<>> /\ output_filename = None
HandlerIdle  ==
    /\ last = [handler |-> "none"]
    /\ resp = [kind |-> "none", notice |-> ""]
    /\ context = EmptyDir
    /\ io = {}
    /\ made_tmp = 0
    /\ requests = 0
RaceIdle     ==
    /\ pc = <<>> /\ req = <<>> /\ tmp = <<>> /\ locals = <<>> /\ loaded = <<>>
    /\ writers = <<>> /\ order = EmptyDir

-----------------------------------------------------------------------------
(* SpecSanitize: sanitize_placeholder applied to a string, and again to    *)
(* its result.                                                             *)

SanitizeAlphabet == {"a", "1", "_", " ", "!"}

InitSanitize ==
    /\ placeholder \in StringsUpTo(SanitizeAlphabet, MaxPlaceholderLen)
    /\ once = None
    /\ twice = None
    /\ FsIdle /\ RewriteIdle /\ FilenameIdle /\ HandlerIdle /\ RaceIdle

SanitizeOnce ==
    /\ once = None
    /\ once' = sanitize_placeholder(placeholder)
    /\ UNCHANGED <<placeholder, twice>>
    /\ UNCHANGED <<fsVars, rewriteVars, filenameVars, handlerVars, raceVars>>

SanitizeAgain ==
    /\ once # None
    /\ twice = None
    /\ twice' = sanitize_placeholder(once)
    /\ UNCHANGED <<placeholder, once>>
    /\ UNCHANGED <<fsVars, rewriteVars, filenameVars, handlerVars, raceVars>>

NextSanitize == SanitizeOnce \/ SanitizeAgain

SpecSanitize == InitSanitize /\ [][NextSanitize]_vars

NoEdgeUnderscore(s) == s = <<>> \/ (s[1] # "_" /\ s[Len(s)] # "_")

\* C9: sanitize_placeholder is idempotent, and its result neither starts nor ends
\* with an underscore.
C9_Idempotent ==
    /\ once # None => NoEdgeUnderscore(once)
    /\ twice # None => twice = once

\* a string with non-word characters and underscores at both ends, sanitized twice
C9_Witness ==
    /\ twice # None
    /\ Len(placeholder) >= 3
    /\ placeholder[1] \notin WordChars
    /\ placeholder[Len(placeholder)] = "_"
    /\ once # placeholder
    /\ once # <<>>

-----------------------------------------------------------------------------
(* SpecRewrite: sanitize_template_xml on a template whose payload is any   *)
(* short string of braces, tags, blanks, line ends and characters, with a  *)
(* mapping for any subset of its placeholders; then the extractor on the  *)
(* result.                                                                 *)

\* the last token is a whole occurrence, so that a short payload can hold two
PayloadTokens == {<<"{", "{">>, <<"}", "}">>, <<"<">>, <<">">>, <<"a">>, <<"!">>, <<" ">>,
                  <<"\r">>, <<"\n">>, <<"{", "{", "a", "!", "}", "}">>}

RECURSIVE Payloads(_)
Payloads(n) ==
    IF n = 0 THEN {<<>>}
    ELSE LET shorter == Payloads(n - 1)
         IN  shorter \cup {s \o t : s \in shorter, t \in PayloadTokens}

TemplateName == <<"T">>

\* mapping[ph] = sanitize_placeholder(ph), as generate_document builds it
MappingOf(phs) == [ph \in phs |-> sanitize_placeholder(ph)]

InitRewrite ==
    /\ xml_content \in Payloads(MaxTokens)
    /\ template_path = <<TEMPLATES_DIR, TemplateName>>
    /\ files = Put(EmptyDir, template_path, TemplateFile(xml_content))
    /\ scratch = EmptyDir
    /\ mapping \in {MappingOf(phs) : phs \in SUBSET Placeholders(xml_content)}
    /\ ret = NotCalled
    /\ extracted = [done |-> FALSE, set |-> {}]
    /\ SanitizeIdle /\ FilenameIdle /\ HandlerIdle /\ RaceIdle

RewriteTemplate ==
    /\ ret = NotCalled
    /\ LET r == sanitize_template_xml(files, scratch, template_path, mapping,
                                      SANITIZED_DIR, "none")
       IN  /\ ret' = r.ret
           /\ files' = r.files
           /\ scratch' = r.scratch
    /\ UNCHANGED <<xml_content, template_path, mapping, extracted>>
    /\ UNCHANGED <<sanitizeVars, filenameVars, handlerVars, raceVars>>

ExtractRewritten ==
    /\ ret.kind = "path"
    /\ ~extracted.done
    /\ extracted' = [done |-> TRUE, set |-> extract_placeholders_from_xml(files, ret.path)]
    /\ UNCHANGED <<xml_content, template_path, mapping, ret, fsVars>>
    /\ UNCHANGED <<sanitizeVars, filenameVars, handlerVars, raceVars>>

NextRewrite == RewriteTemplate \/ ExtractRewritten

SpecRewrite == InitRewrite /\ [][NextRewrite]_vars

\* the text between the occurrences: before the first, between two, after the last
Gaps(s) ==
    LET ms == Matches(s, 1)
        n  == Len(ms)
    IN  [k \in 1..(n + 1) |->
            SubSeq(s, IF k = 1 THEN 1 ELSE ms[k - 1][2] + 2,
                      IF k = n + 1 THEN Len(s) ELSE ms[k][1] - 1)]

Occurrences(s) == LET ms == Matches(s, 1) IN [k \in DOMAIN ms |-> Group0(s, ms[k])]

Injective(f) == \A x, y \in DOMAIN f : f[x] = f[y] => x = y

\* C4 as claimed: extraction from the rewritten template gives the mapped values
\* of the mapped placeholders and the unmapped placeholders, when no two
\* placeholders share a key.
C4_RoundTrip ==
    (extracted.done /\ Injective(mapping)) =>
        extracted.set = {mapping[ph] : ph \in DOMAIN mapping}
                        \cup (Placeholders(xml_content) \ DOMAIN mapping)

\* C5 as claimed: the rewritten payload has the occurrences of the original, each mapped one
\* as {{value}} and each other one unchanged, the same text between them and the
\* same other members; the template file is untouched and the result is another file.
C5_RewriteFrame ==
    ret.kind = "path" =>
        LET new == files[ret.path].members
            old == Occurrences(xml_content)
        IN  /\ ret.path = <<SANITIZED_DIR, SanitizedPrefix \o template_path[2]>>
            /\ ret.path # template_path
            /\ files[template_path] = TemplateFile(xml_content)
            /\ DOMAIN new = DOMAIN files[template_path].members
            /\ \A n \in DOMAIN new \ {DocXml} : new[n] = files[template_path].members[n]
            /\ Gaps(new[DocXml]) = Gaps(xml_content)
            /\ Len(Occurrences(new[DocXml])) = Len(old)
            /\ \A k \in DOMAIN old :
                  LET c == Cleaned(SubSeq(old[k], 3, Len(old[k]) - 2))
                  IN  Occurrences(new[DocXml])[k] =
                          IF c \in DOMAIN mapping THEN Braced(mapping[c]) ELSE old[k]

-----------------------------------------------------------------------------
(* SpecFilename: the filename derived from a RawValues record whose keys   *)
(* are spellings of the two target names and one other placeholder.        *)

FilenameKeys == {ClientCompanyName, Lower(ClientCompanyName),
                 <<"C","L","I","E","N","T"," ","C","O","M","P","A","N","Y"," ","N","A","M","E">>,
                 ProposalDate, <<"O","t","h","e","r">>}

FilenameValues == {None, <<>>, <<" ">>, <<"A", "c", "m", "e">>, <<" ", "X", " ">>}

\* raw_values as generate_document fills it: one entry per placeholder, in sorted order
RawValuesOver(keys) ==
    LET ks == Sorted(keys)
    IN  {[i \in DOMAIN ks |-> <<ks[i], v[i]>>] : v \in [DOMAIN ks -> FilenameValues]}

InitFilename ==
    /\ raw_values \in UNION {RawValuesOver(keys) : keys \in SUBSET FilenameKeys}
    /\ output_filename = None
    /\ SanitizeIdle /\ FsIdle /\ RewriteIdle /\ HandlerIdle /\ RaceIdle

DeriveFilename ==
    /\ output_filename = None
    /\ output_filename' = OutputFilename(raw_values)
    /\ UNCHANGED raw_values
    /\ UNCHANGED <<sanitizeVars, fsVars, rewriteVars, handlerVars, raceVars>>

NextFilename == DeriveFilename

SpecFilename == InitFilename /\ [][NextFilename]_vars

\* the values the claim allows for a target: the trimmed value of a matching key
\* whose value is not blank, and the default token when there is none
Claimed(raw, target, default) ==
    LET hits == {Strip(raw[i][2]) : i \in {j \in DOMAIN raw :
                     /\ Lower(Strip(raw[j][1])) = Lower(Strip(target))
                     /\ raw[j][2] # None
                     /\ Strip(raw[j][2]) # <<>>}}
    IN  IF hits = {} THEN {default} ELSE hits

\* C6 as claimed, for a RawValues record whose values are all strings: the
\* filename is Proposal_<client>_<date>.docx with, for each target, the trimmed
\* value of a matching key whose value is not blank, or the default token if no
\* matching key has one, also with several matching keys.
C6_Filename ==
    (output_filename # None /\ \A i \in DOMAIN raw_values : raw_values[i][2] # None) =>
        output_filename \in
            {ProposalPrefix \o c \o <<"_">> \o d \o DocxSuffix :
                c \in Claimed(raw_values, ClientCompanyName, UnknownClient),
                d \in Claimed(raw_values, ProposalDate, UnknownDate)}

-----------------------------------------------------------------------------
(* The request handlers select_template and generate_document.             *)

Salesperson_Name  == <<"S","a","l","e","s","p","e","r","s","o","n","_","N","a","m","e">>
Salesperson_Email == <<"S","a","l","e","s","p","e","r","s","o","n","_","E","m","a","i","l">>
Salesperson_Phone == <<"S","a","l","e","s","p","e","r","s","o","n","_","P","h","o","n","e">>

\* the placeholders that are filled from the salesperson, not from the form
Excluded == {Salesperson_Name, Salesperson_Email, Salesperson_Phone}

\* the rows of salespersons.xlsx, as get_salespeople returns them
Salespeople == <<[Name |-> <<"J","o">>, Email |-> <<"j","o","@","x">>, Phone |-> <<"5","5","5">>],
                 [Name |-> <<"A","l">>, Email |-> <<"a","l","@","x">>, Phone |-> <<>>]>>

\* request.form.get(key)
FormGet(form, key) == IF key \in DOMAIN form THEN form[key] ELSE None

\* the form fields the pages of the application submit besides the placeholders
TemplateFileField == <<"t","e","m","p","l","a","t","e","_","f","i","l","e">>
SalespersonField  == <<"s","a","l","e","s","p","e","r","s","o","n">>

\* request.form of a request: the placeholder fields, the chosen template and the
\* chosen salesperson, each of the two absent when nothing was submitted for it
RequestForm(fields, template_file, selected) ==
    [key \in DOMAIN fields
              \cup (IF template_file = None THEN {} ELSE {TemplateFileField})
              \cup (IF selected = None THEN {} ELSE {SalespersonField}) |->
        IF key = TemplateFileField /\ template_file # None THEN template_file
        ELSE IF key = SalespersonField /\ selected # None THEN selected
        ELSE fields[key]]

\* a slip: the salesperson placeholders are not skipped
ManualPlaceholders_all(all_placeholders) == all_placeholders

\* the placeholders the loop of generate_document processes (lines 213-215), and
\* the ones select_template offers for manual entry (lines 188-189)
ManualPlaceholders(all_placeholders) ==
    SelectSeq(all_placeholders, LAMBDA ph : ph \notin Excluded)

\* lines 209-220 of generate_document: mapping, raw_values and context from the form
BuildContext(all_placeholders, form) ==
    LET manual == ManualPlaceholders(all_placeholders)
        map    == [ph \in Range(manual) |-> sanitize_placeholder(ph)]
    IN  [mapping    |-> map,
         raw_values |-> [i \in DOMAIN manual |-> <<manual[i], FormGet(form, map[manual[i]])>>],
         context    |-> [key \in {map[ph] : ph \in DOMAIN map} |-> FormGet(form, key)]]

\* `if not template_file:` and `if selected_salesperson:`: None and the empty
\* string are false
Truthy(value) == value # None /\ value # <<>>

\* line 225: the first salesperson whose name matches, as a set of at most one row
FindSalesperson(selected) ==
    LET hits == {i \in DOMAIN Salespeople :
                    Lower(Strip(Salespeople[i].Name)) = Lower(Strip(selected))}
    IN  IF hits = {} THEN {}
        ELSE {Salespeople[CHOOSE i \in hits : \A j \in hits : i <= j]}

\* lines 226-229: the salesperson's fields under the three literal keys
InjectSalesperson(ctx, sp) ==
    [key \in DOMAIN ctx \cup Excluded |->
        CASE key = Salesperson_Name  -> sp.Name
          [] key = Salesperson_Email -> sp.Email
          [] key = Salesperson_Phone -> sp.Phone
          [] OTHER -> ctx[key]]

Redirect(notice) == [kind |-> "redirect", notice |-> notice]
Page(name)       == [kind |-> "page", notice |-> name]
Uncaught         == [kind |-> "exception", notice |-> ""]

\* what the environment can make fail during one request, at most one per request
Faults == RewriteFaults \cup {"salespeople", "render", "save"}

\* select_template as one request: offered is the list the form page shows, and
\* failed the fault that struck, if any
select_template(fs, form, fault) ==
    LET template_file == FormGet(form, TemplateFileField) IN
    IF ~Truthy(template_file)
    THEN [resp |-> Redirect("No template selected."), io |-> {}, placeholders |-> <<>>,
          offered |-> <<>>, failed |-> "none"]
    ELSE LET placeholders == Sorted(extract_placeholders_from_xml(fs, template_file))
         IN  IF placeholders = <<>>
             THEN [resp |-> Redirect("No placeholders found in the selected template."),
                   io |-> {"open template"}, placeholders |-> placeholders,
                   offered |-> <<>>, failed |-> "none"]
             ELSE IF fault = "salespeople"
             THEN [resp |-> Uncaught, io |-> {"open template", "open salespeople"},
                   placeholders |-> placeholders, offered |-> <<>>, failed |-> fault]
             ELSE [resp |-> Page("fill_placeholders.html"),
                   io |-> {"open template", "open salespeople"},
                   placeholders |-> placeholders,
                   offered |-> ManualPlaceholders(placeholders), failed |-> "none"]

\* generate_document as one request: the response, the file system and the scratch
\* directories afterwards, the locals of the handler when it ended, and the fault
\* that struck, if any
generate_document(fs, sc, form, fault) ==
    LET template_file == FormGet(form, TemplateFileField)
        selected      == FormGet(form, SalespersonField)
    IN
    IF ~Truthy(template_file)
    THEN [resp |-> Redirect("Template file missing."), files |-> fs, scratch |-> sc,
          placeholders |-> <<>>, mapping |-> EmptyDir, raw_values |-> <<>>,
          context |-> EmptyDir, io |-> {}, made_tmp |-> 0, output_filename |-> None,
          failed |-> "none"]
    ELSE
    LET all_placeholders == Sorted(extract_placeholders_from_xml(fs, template_file))
        built == BuildContext(all_placeholders, form)
        end(r, f, s, ctx, ops, t, name, failed) ==
            [resp |-> r, files |-> f, scratch |-> s, placeholders |-> all_placeholders,
             mapping |-> built.mapping, raw_values |-> built.raw_values,
             context |-> ctx, io |-> {"open template"} \cup ops, made_tmp |-> t,
             output_filename |-> name, failed |-> failed]
    IN
    IF Truthy(selected) /\ fault = "salespeople"
    THEN end(Uncaught, fs, sc, built.context, {"open salespeople"}, 0, None, fault)
    ELSE
    LET sp  == IF Truthy(selected) THEN FindSalesperson(selected) ELSE {}
        ctx == IF sp = {} THEN built.context
               ELSE InjectSalesperson(built.context, CHOOSE row \in sp : TRUE)
        ops == IF Truthy(selected) THEN {"open salespeople"} ELSE {}
        san == sanitize_template_xml(fs, sc, template_file, built.mapping, SANITIZED_DIR,
                                     IF fault \in RewriteFaults THEN fault ELSE "none")
        sanOps == ops \cup {"mkdtemp"}
                  \cup (IF san.ret.kind = "path" \/ san.failed = "write_archive"
                        THEN {"write sanitized"} ELSE {})
    IN
    CASE san.ret.kind = "raise" ->
           end(Uncaught, san.files, san.scratch, ctx, sanOps, san.tmp, None, san.failed)
      [] san.ret.kind = "None" ->
           end(Redirect("Error sanitizing the template."), san.files, san.scratch, ctx,
               sanOps, san.tmp, None, san.failed)
      [] OTHER ->
           LET name     == OutputFilename(built.raw_values)
               rendered == [san.files[san.ret.path] EXCEPT !.rendered = <<ctx>>]
               readOps  == sanOps \cup {"open sanitized"}
           IN  IF fault = "render"
               THEN end(Redirect("Error rendering the document."), san.files, san.scratch,
                        ctx, readOps, san.tmp, None, fault)
               ELSE IF name = AttributeError
               THEN end(Uncaught, san.files, san.scratch, ctx, readOps, san.tmp, None,
                        "none")
               ELSE IF fault = "save"
               THEN end(Redirect("Error saving the generated document."), san.files,
                        san.scratch, ctx, readOps, san.tmp, name, fault)
               ELSE end(Page("result.html"),
                        Put(san.files, <<OUTPUT_DIR, name>>, rendered),
                        san.scratch, ctx, readOps \cup {"write output"}, san.tmp,
                        name, "none")

-----------------------------------------------------------------------------
(* Spec: requests to select_template and generate_document, one after the  *)
(* other, over a template directory with three templates, a file that is  *)
(* no archive and an archive without the markup payload.                   *)

PayloadA == Braced(ClientCompanyName) \o <<" ">>
            \o Braced(<<"<", "b", ">">> \o ProposalDate \o <<"<", "/", "b", ">">>)
            \o Braced(Salesperson_Name)
PayloadB == Braced(<<"S","a","l","e","s","p","e","r","s","o","n"," ","N","a","m","e">>)
            \o <<"\r", "\n">> \o Braced(<<" ">> \o <<"O","t","h","e","r">>)
            \o Braced(SalespersonField)
PayloadC == <<"<","w",">","H","e","l","l","o","<","/","w",">">>

TemplatePath(name) == <<TEMPLATES_DIR, <<name>>>>

InitialFiles ==
    [path \in {TemplatePath(n) : n \in {"A", "B", "C", "D", "E"}} |->
        CASE path = TemplatePath("A") -> TemplateFile(PayloadA)
          [] path = TemplatePath("B") -> TemplateFile(PayloadB)
          [] path = TemplatePath("C") -> TemplateFile(PayloadC)
          [] path = TemplatePath("D") -> NotAnArchive
          [] OTHER -> NoPayloadFile]

\* template_file of a request: absent, posted empty, a file of the directory, or a
\* path with no file
TemplateChoices == {None, <<>>} \cup DOMAIN InitialFiles \cup {TemplatePath("F")}

Acme == <<"A", "c", "m", "e">>

Client_Company_Name == sanitize_placeholder(ClientCompanyName)
Proposal_date       == sanitize_placeholder(ProposalDate)

\* the submitted forms: every field filled in, some fields absent, one field blank
Forms ==
    {[key \in keys |-> Acme] : keys \in {{}, {Proposal_date},
                                         {Client_Company_Name, Proposal_date},
                                         {Client_Company_Name, Proposal_date,
                                          Salesperson_Name}}}
    \cup {[key \in {Client_Company_Name, Proposal_date} |->
              IF key = Proposal_date THEN <<>> ELSE Acme]}

SalespersonChoices == {None, <<>>, <<" ","j","o"," ">>, <<"B","o">>}

Init ==
    /\ files = InitialFiles
    /\ scratch = EmptyDir
    /\ last = [handler |-> "none"]
    /\ resp = [kind |-> "none", notice |-> ""]
    /\ mapping = EmptyDir
    /\ raw_values = <<>>
    /\ context = EmptyDir
    /\ io = {}
    /\ made_tmp = 0
    /\ output_filename = None
    /\ requests = 0
    /\ xml_content = <<>> /\ template_path = NoPath /\ ret = NotCalled
    /\ extracted = [done |-> FALSE, set |-> {}]
    /\ SanitizeIdle /\ RaceIdle

SelectTemplate ==
    /\ requests < MaxRequests
    /\ \E template_file \in TemplateChoices, fault \in {"none", "salespeople"} :
          \E r \in {select_template(files, RequestForm(EmptyDir, template_file, None), fault)} :
              /\ last' = [handler |-> "select_template", template_file |-> template_file,
                          selected |-> None, failed |-> r.failed,
                          placeholders |-> r.placeholders, offered |-> r.offered]
              /\ resp' = r.resp
              /\ io' = r.io
    /\ mapping' = EmptyDir
    /\ raw_values' = <<>>
    /\ context' = EmptyDir
    /\ made_tmp' = 0
    /\ output_filename' = None
    /\ requests' = requests + 1
    /\ UNCHANGED <<files, scratch, xml_content, template_path, ret, extracted>>
    /\ UNCHANGED <<sanitizeVars, raceVars>>

GenerateDocument ==
    /\ requests < MaxRequests
    /\ \E template_file \in TemplateChoices, form \in Forms,
          selected \in SalespersonChoices, fault \in Faults :
          \E r \in {generate_document(files, scratch,
                                     RequestForm(form, template_file, selected), fault)} :
              /\ last' = [handler |-> "generate_document", template_file |-> template_file,
                          selected |-> selected, failed |-> r.failed,
                          placeholders |-> r.placeholders, offered |-> <<>>]
              /\ resp' = r.resp
              /\ files' = r.files
              /\ scratch' = r.scratch
              /\ mapping' = r.mapping
              /\ raw_values' = r.raw_values
              /\ context' = r.context
              /\ io' = r.io
              /\ made_tmp' = r.made_tmp
              /\ output_filename' = r.output_filename
    /\ requests' = requests + 1
    /\ UNCHANGED <<xml_content, template_path, ret, extracted>>
    /\ UNCHANGED <<sanitizeVars, raceVars>>

Next == SelectTemplate \/ GenerateDocument

Spec == Init /\ [][Next]_vars

Generated == last.handler = "generate_document"

\* C1 as claimed: whatever the outcome of sanitize_template_xml, the scratch
\* directory the call created no longer exists when the call has ended.
C1_ScratchRemoved == made_tmp # 0 => made_tmp \notin DOMAIN scratch

\* C2 as claimed: no generate_document request ends in an uncaught exception, and
\* one in which a stage failed ends with a notice and a redirect.
C2_NoUncaught ==
    Generated =>
        /\ resp.kind \in {"redirect", "page"}
        /\ last.failed # "none" => resp.kind = "redirect" /\ resp.notice # ""

\* C3 as claimed: a generate_document request whose form lacks the value of a
\* placeholder, and in which nothing else fails, is answered with the result page;
\* the placeholder has no value in RawValues and RenderContext, and the filename
\* has the default token where that placeholder is a filename target.
C3_MissingInput ==
    (Generated /\ last.failed = "none" /\ \E i \in DOMAIN raw_values : raw_values[i][2] = None)
    =>  /\ resp = Page("result.html")
        /\ \A i \in DOMAIN raw_values :
              (raw_values[i][2] = None /\ mapping[raw_values[i][1]] \notin Excluded)
                  => context[mapping[raw_values[i][1]]] = None
        /\ output_filename \in
              {ProposalPrefix \o c \o <<"_">> \o d \o DocxSuffix :
                  c \in Claimed(raw_values, ClientCompanyName, UnknownClient),
                  d \in Claimed(raw_values, ProposalDate, UnknownDate)}

ExcludedKept ==
    /\ DOMAIN mapping \cap Excluded = {}
    /\ \A i \in DOMAIN raw_values : raw_values[i][1] \notin Excluded

JoInjected ==
    (last.selected = <<" ","j","o"," ">> /\ last.failed # "salespeople") =>
        /\ Excluded \subseteq DOMAIN context
        /\ context[Salesperson_Name] = <<"J","o">>
        /\ context[Salesperson_Email] = <<"j","o","@","x">>
        /\ context[Salesperson_Phone] = <<"5","5","5">>

\* C7 as claimed: the excluded placeholders never enter Mapping or RawValues, a
\* selected and found salesperson is in RenderContext under the three literal
\* keys, and with no salesperson selected the three keys are absent.
C7_Original ==
    (Generated /\ Truthy(last.template_file)) =>
        /\ ExcludedKept
        /\ JoInjected
        /\ ~Truthy(last.selected) => DOMAIN context \cap Excluded = {}

\* C7, amended: as claimed, but with no salesperson selected each of the three keys
\* is absent from RenderContext unless a placeholder that is not excluded
\* sanitizes to it, and then the key holds the form value of that placeholder.
C7_Context ==
    (Generated /\ Truthy(last.template_file)) =>
        /\ ExcludedKept
        /\ JoInjected
        /\ ~Truthy(last.selected) =>
              \A key \in DOMAIN context \cap Excluded :
                  \E i \in DOMAIN raw_values :
                      /\ raw_values[i][1] \notin Excluded
                      /\ mapping[raw_values[i][1]] = key
                      /\ context[key] = raw_values[i][2]

\* a template with an excluded placeholder, rendered with the salesperson Jo
C7_Witness ==
    /\ Generated
    /\ resp = Page("result.html")
    /\ Salesperson_Name \in Range(last.placeholders)
    /\ Len(raw_values) = 2
    /\ last.selected = <<" ","j","o"," ">>
    /\ context[Salesperson_Name] = <<"J","o">>

\* the template of the last request is an archive with a payload without placeholders
NoPlaceholders ==
    /\ Truthy(last.template_file)
    /\ Opens(files, last.template_file)
    /\ DocXml \in DOMAIN files[last.template_file].members
    /\ last.placeholders = <<>>

\* C8 as claimed, for what is written: a request to either handler with no
\* template, or with a template that has no placeholders, ends with a notice and
\* a redirect, and has made no scratch directory and written no sanitized or
\* output artifact.
C8_MissingInput ==
    (last.handler # "none" /\ (~Truthy(last.template_file) \/ NoPlaceholders))
    =>  /\ resp.kind = "redirect"
        /\ resp.notice # ""
        /\ io \cap {"mkdtemp", "write sanitized", "write output"} = {}

-----------------------------------------------------------------------------
(* SpecRace: two generate_document requests in two threads of the server.  *)
(* Each statement that touches the file system is a step.  Opening a file  *)
(* for writing truncates it, and the archive is complete when it is        *)
(* closed; when two requests have the same file open for writing, what the *)
(* file holds after either closes it is not determined.                    *)

Requests == {1, 2}

ALT_DIR == "alt"

\* two templates with the same basename in two directories
RaceTemplates == {<<TEMPLATES_DIR, TemplateName>>, <<ALT_DIR, TemplateName>>}

RaceFiles ==
    [path \in RaceTemplates |->
        IF path[1] = TEMPLATES_DIR
        THEN TemplateFile(Braced(ClientCompanyName))
        ELSE TemplateFile(Braced(ClientCompanyName) \o Braced(<<"O","t","h","e","r">>))]

RaceForms == {[key \in {Client_Company_Name} |-> v] : v \in {Acme, <<"B","o","l","t">>}}

NotWriting == [path |-> NoPath, clean |-> TRUE]
NotLoaded  == NotAnArchive

InitRace ==
    /\ files = RaceFiles
    /\ scratch = EmptyDir
    /\ req \in [Requests -> {RequestForm(fields, template_file, None) :
                                 fields \in RaceForms, template_file \in RaceTemplates}]
    /\ pc = [r \in Requests |-> "extract"]
    /\ tmp = [r \in Requests |-> 0]
    /\ locals = [r \in Requests |-> [resp |-> [kind |-> "none", notice |-> ""]]]
    /\ loaded = [r \in Requests |-> NotLoaded]
    /\ writers = [r \in Requests |-> NotWriting]
    /\ order = EmptyDir
    /\ SanitizeIdle /\ RewriteIdle /\ FilenameIdle /\ HandlerIdle

RaceFrame == UNCHANGED <<sanitizeVars, rewriteVars, filenameVars, handlerVars, req>>

Goto(r, label) == pc' = [pc EXCEPT ![r] = label]

\* open(path, "w") by request r: the file is truncated, and every request that
\* has it open for writing, r too, no longer writes it alone
OpenForWriting(r, path) ==
    /\ files' = Put(files, path, NotAnArchive)
    /\ writers' = [q \in Requests |->
                     IF q = r
                     THEN [path |-> path,
                           clean |-> \A o \in Requests \ {r} : writers[o].path # path]
                     ELSE IF writers[q].path = path
                     THEN [writers[q] EXCEPT !.clean = FALSE]
                     ELSE writers[q]]

\* request r closes the file it is writing, having written archive into it
CloseWritten(r, archive) ==
    LET path == writers[r].path
    IN  /\ \E content \in (IF writers[r].clean THEN {archive} ELSE {archive, NotAnArchive}) :
              files' = Put(files, path, content)
        /\ writers' = [writers EXCEPT ![r] = NotWriting]
        /\ order' = Put(order, path,
                        (IF path \in DOMAIN order THEN order[path] ELSE <<>>) \o <<r>>)

\* line 202: the template of request r
template_file(r) == FormGet(req[r], TemplateFileField)

\* lines 202-229: the placeholders are extracted and the context is built
Extract(r) ==
    /\ pc[r] = "extract"
    /\ LET all_placeholders == Sorted(extract_placeholders_from_xml(files, template_file(r)))
           built == BuildContext(all_placeholders, req[r])
       IN  locals' = [locals EXCEPT ![r] =
                         [resp |-> [kind |-> "none", notice |-> ""],
                          mapping |-> built.mapping, raw_values |-> built.raw_values,
                          context |-> built.context]]
    /\ Goto(r, "mkdtemp")
    /\ UNCHANGED <<files, scratch, tmp, loaded, writers, order>>
    /\ RaceFrame

\* line 112
MkDtemp(r) ==
    /\ pc[r] = "mkdtemp"
    /\ tmp' = [tmp EXCEPT ![r] = NewTmp(scratch)]
    /\ scratch' = Put(scratch, NewTmp(scratch), EmptyDir)
    /\ Goto(r, "unpack")
    /\ UNCHANGED <<files, locals, loaded, writers, order>>
    /\ RaceFrame

\* lines 113-114
Unpack(r) ==
    /\ pc[r] = "unpack"
    /\ scratch' = Put(scratch, tmp[r], files[template_file(r)].members)
    /\ Goto(r, "rewrite")
    /\ UNCHANGED <<files, tmp, locals, loaded, writers, order>>
    /\ RaceFrame

\* lines 115-138, and lines 232-234 of generate_document: the payload is read,
\* rewritten and written back; when it cannot be read (it is missing) or the write
\* fails, the scratch directory is removed, None is returned and the request ends
\* with a notice
Rewrite(r) ==
    /\ pc[r] = "rewrite"
    /\ \/ /\ DocXml \in DOMAIN scratch[tmp[r]]
          /\ scratch' = Put(scratch, tmp[r],
                            Put(scratch[tmp[r]], DocXml,
                                RewrittenPayload(scratch[tmp[r]][DocXml],
                                                 locals[r].mapping)))
          /\ Goto(r, "open sanitized")
          /\ UNCHANGED locals
       \/ /\ scratch' = Drop(scratch, tmp[r])
          /\ locals' = [locals EXCEPT ![r].resp =
                            Redirect("Error sanitizing the template.")]
          /\ Goto(r, "done")
    /\ UNCHANGED <<files, tmp, loaded, writers, order>>
    /\ RaceFrame

\* lines 139-140: the new archive is opened
OpenSanitized(r) ==
    /\ pc[r] = "open sanitized"
    /\ OpenForWriting(r, SanitizedPath(template_file(r), SANITIZED_DIR))
    /\ Goto(r, "write sanitized")
    /\ UNCHANGED <<scratch, tmp, locals, loaded, order>>
    /\ RaceFrame

\* lines 141-145: the members are written and the archive is closed
WriteSanitized(r) ==
    /\ pc[r] = "write sanitized"
    /\ CloseWritten(r, Archive(scratch[tmp[r]]))
    /\ Goto(r, "rmtree")
    /\ UNCHANGED <<scratch, tmp, locals, loaded>>
    /\ RaceFrame

\* line 146
RmTree(r) ==
    /\ pc[r] = "rmtree"
    /\ scratch' = Drop(scratch, tmp[r])
    /\ Goto(r, "load")
    /\ UNCHANGED <<files, tmp, locals, loaded, writers, order>>
    /\ RaceFrame

\* lines 235-240: the sanitized template is loaded and rendered
Load(r) ==
    /\ pc[r] = "load"
    /\ LET path == SanitizedPath(template_file(r), SANITIZED_DIR)
       IN  IF Opens(files, path)
           THEN /\ loaded' = [loaded EXCEPT ![r] = files[path]]
                /\ Goto(r, "open output")
                /\ UNCHANGED locals
           ELSE /\ locals' = [locals EXCEPT ![r].resp =
                                 Redirect("Error rendering the document.")]
                /\ Goto(r, "done")
                /\ UNCHANGED loaded
    /\ UNCHANGED <<files, scratch, tmp, writers, order>>
    /\ RaceFrame

OutputPath(r) == <<OUTPUT_DIR, OutputFilename(locals[r].raw_values)>>

\* lines 242-248: the output file is opened
OpenOutput(r) ==
    /\ pc[r] = "open output"
    /\ OpenForWriting(r, OutputPath(r))
    /\ Goto(r, "write output")
    /\ UNCHANGED <<scratch, tmp, locals, loaded, order>>
    /\ RaceFrame

\* the document request r saves
Document(r) == [loaded[r] EXCEPT !.rendered = <<locals[r].context>>]

\* lines 248-252: the document is written and the file closed
WriteOutput(r) ==
    /\ pc[r] = "write output"
    /\ CloseWritten(r, Document(r))
    /\ locals' = [locals EXCEPT ![r].resp = Page("result.html")]
    /\ Goto(r, "done")
    /\ UNCHANGED <<scratch, tmp, loaded>>
    /\ RaceFrame

NextRace ==
    \E r \in Requests :
        \/ Extract(r) \/ MkDtemp(r) \/ Unpack(r) \/ Rewrite(r) \/ OpenSanitized(r)
        \/ WriteSanitized(r) \/ RmTree(r) \/ Load(r) \/ OpenOutput(r) \/ WriteOutput(r)

SpecRace == InitRace /\ [][NextRace]_vars

\* what request r alone writes to the sanitized path
OwnSanitized(r) ==
    Archive(Put(RaceFiles[template_file(r)].members, DocXml,
                RewrittenPayload(RaceFiles[template_file(r)].members[DocXml],
                                 locals[r].mapping)))

\* request r is between mkdtemp and rmtree
UsesScratch(r) == pc[r] \in {"unpack", "rewrite", "open sanitized", "write sanitized", "rmtree"}

\* C10 as claimed: no scratch directory is used by two requests at a time, each
\* request renders from the sanitized template it produced itself, and once both
\* requests have finished, every artifact path holds the complete artifact of the
\* request that wrote it last.
C10_LastWriterWins ==
    /\ \A r, q \in Requests : (r # q /\ UsesScratch(r) /\ UsesScratch(q)) => tmp[r] # tmp[q]
    /\ \A r \in Requests : loaded[r] # NotLoaded => loaded[r] = OwnSanitized(r)
    /\ (\A r \in Requests : pc[r] = "done") =>
          \A path \in DOMAIN order :
              LET w == order[path][Len(order[path])]
              IN  files[path] = IF path[1] = SANITIZED_DIR THEN OwnSanitized(w)
                                ELSE Document(w)

====
